---- MODULE Spec2Model ----
(***************************************************************************)
(* Model of backend/shared/database_OPTIMIZED.py: OptimizedDatabaseManager *)
(* (connection pool, query cache, chunked execution, bulk insert, metrics) *)
(* as a state machine.  Callers are threads; every handler is cut into    *)
(* steps at its interactions with shared state (the pool, the backing     *)
(* store, the cache store, the query_metrics dictionary).                 *)
(***************************************************************************)
EXTENDS Integers, Sequences, FiniteSets, TLC

\* ------------------------------------------------------------------ bounds
\* Threads that may call the manager concurrently.
NumCallers == 3
\* Calls that may be started over a behaviour (caps query_metrics and the
\* table): on the pool, on the cache, on the
\* counters, by the bulk writer.
MaxCalls == 3
CacheCalls == 2
MetricCalls == 3
BulkCalls == 1
\* QueuePool's pool_size (5 in development, 20 in production), scaled down.
PoolSize == 1
\* QueuePool's max_overflow (5 in development, 10 in production), scaled down.
MaxOverflow == 1
\* QueuePool's pool_timeout (10 s / 30 s), in ticks.
PoolTimeout == 2
\* Largest cache_ttl a caller passes, in ticks.
MaxTTL == 2
\* Rows a single-caller bulk insert may carry, and its largest batch_size.
MaxRows == 21
MaxBatch == 2
\* Rows and batch_size of bulk inserts that run concurrently with other calls.
SmallRows == 2
ServiceCalls == 2
MaxResultRows == 8
KeyCalls == 2
ClearCalls == 2
PartialCalls == 2
HitCalls == 4
StaleCalls == 3
\* The rate limiter: client IPs, the calls made, the seconds that pass, and
\* the middleware's limit and window (100 calls in 3600 s) scaled down.
NumClients == 2
MaxRequests == 5
MaxClock == 4
DefaultLimit == 2
DefaultWindow == 2
PartialRows == 2
RoundTripCalls == 2

\* ------------------------------------------------------- program constants
\* bulk_insert_optimized commits when inserted % (batch_size * 10) == 0.
CommitEvery == 10
\* _initialize_connections: max_retries = 3, retry_delay = 2.
max_retries == 3
retry_delay == 2
\* DataFrame.to_json writes floats with at most this many decimal places.
double_precision == 10

Callers == 1..NumCallers
NoConn == 0
\* Connection identities: as many as the pool may hold, and one to spare.
Conns == 1..(PoolSize + MaxOverflow + 1)

Min(a, b) == IF a < b THEN a ELSE b

\* ------------------------------------------------------------- cache keys
\* A parameter dictionary is the sequence of its (name, value) items in
\* insertion order; names are 1, 2; a value is an int or a datetime.
IntVal(n) == [ty |-> "int", v |-> n]
DateVal == [ty |-> "datetime", v |-> 0]
Item(n, v) == [name |-> n, val |-> v]

\* json.dumps raises TypeError on a value that is not JSON serializable.
Serializable(params) ==
    \A i \in 1..Len(params) : params[i].val.ty = "int"

\* sort_keys=True: the items ordered by name (names are distinct in a dict).
RECURSIVE SortItems(_)
SortItems(params) ==
    IF Len(params) = 0 THEN <<>>
    ELSE LET m == CHOOSE i \in 1..Len(params) :
                      \A j \in 1..Len(params) : params[i].name <= params[j].name
             rest == [k \in 1..(Len(params) - 1) |->
                          IF k < m THEN params[k] ELSE params[k + 1]]
         IN <<params[m]>> \o SortItems(rest)

\* Mutant: json.dumps without sort_keys writes the items in insertion order.
json_dumps_unsorted(params) == params

json_dumps(params) == SortItems(params)

\* The text f"{query}_{json}" as a number: one digit per item, base 5.
RECURSIVE JsonCode(_)
JsonCode(js) ==
    IF Len(js) = 0 THEN 0
    ELSE JsonCode(SubSeq(js, 1, Len(js) - 1)) * 5
         + ((js[Len(js)].name - 1) * 2 + (js[Len(js)].val.v - 1) + 1)

QueryCode(query) == IF query = "all" THEN 0 ELSE 1

\* The character of a digit.
Digit(d) == <<"0", "1", "2", "3", "4", "5", "6", "7">>[d + 1]

\* hashlib.md5(...).hexdigest(), on this input space: an injective scramble
\* of the text into two octal digits.
md5_hexdigest(query, js) ==
    LET x == ((QueryCode(query) * 25 + JsonCode(js)) * 7 + 3) % 64
    IN <<Digit(x \div 8), Digit(x % 8)>>

\* _get_cache_key: "query_cache:" followed by the digest.  Defined for
\* serializable params only; json.dumps raises otherwise.
get_cache_key(query, params) ==
    <<"query_cache:">> \o md5_hexdigest(query, json_dumps(params))

\* ------------------------------------------------------------------ state
VARIABLES
    pc,             \* [Callers -> label]: each thread's position in its
                    \* handler; "returned" and "raised" once the call ended
    call,           \* [Callers -> record]: the call's arguments and locals
    conn,           \* [Callers -> Conns or NoConn]: the connection a thread holds
    free,           \* the pool's checked-in connections (QueuePool's queue)
    redis_client,   \* self.redis_client is not None
    redisUp,        \* the cache store answers
    cache,          \* the cache store: key -> [payload, ttl (time to live)]
    query_metrics,  \* self.query_metrics
    events,         \* per counter, the increments executed so far
    table,          \* the backing store's committed rows, in commit order
    window,         \* key -> what is left of the TTL window opened by the
                    \* last call that answered the key from the store
    budget,         \* calls that may still be started
    engine,         \* the pool class of self.engine, "none" while it is None
    startup,        \* the progress of _initialize_connections
    rate_limit_storage, \* the server's client IP -> list of timestamps
    now,            \* the server's clock, time.time()
    requests        \* the calls of check_rate_limit so far, in order, with
                    \* their results (read by the properties only)

limiter == <<rate_limit_storage, now, requests>>

vars == <<pc, call, conn, free, redis_client, redisUp, cache,
          query_metrics, events, table, window, budget, engine, startup,
          limiter>>

\* The server module is loaded (line 95) and has answered no request.
InitLimiter ==
    /\ rate_limit_storage = <<>>
    /\ now = 0
    /\ requests = <<>>

Counters == {"total_queries", "cache_hits", "slow_queries", "failed_queries"}

ZeroMetrics == [c \in Counters |-> 0]

\* query_metrics once __init__ has returned: the listeners are registered
\* before _test_connections runs its SELECT 1 (lines 134-137), which the
\* after_execute listener counts.
StartMetrics == [ZeroMetrics EXCEPT !["total_queries"] = 1]

\* The progress of _initialize_connections: the attempt under way (or the
\* last one made), the sleeps made so far, the cause of every failed attempt,
\* and the environment it reads: whether DATABASE_URL or DB_URI is set and
\* whether the redis module could be imported (REDIS_AVAILABLE).  It also
\* keeps the pool class of the engine self.scoped_session is bound to,
\* "none" while that field is None.
StartupAt(phase, db_url, redis_available) ==
    [phase |-> phase, attempt |-> 1, delays |-> <<>>, causes |-> <<>>,
     db_url |-> db_url, REDIS_AVAILABLE |-> redis_available,
     scoped_session |-> "none"]

\* __init__ has returned with a first attempt that succeeded.
StartedPooled(client) ==
    [StartupAt("Connected", TRUE, client) EXCEPT !.scoped_session = "QueuePool"]

\* __init__ has returned: the manager serves calls.
Ready == startup.phase \in {"Connected", "Degraded"}

\* The after_execute listener is registered on the engine in use: the
\* listeners are set on the pooled engine of each attempt (line 134) and
\* never on the fallback engine (lines 150-159).
Listening == engine = "QueuePool"

\* The same for the engine get_session's sessions are bound to.
SessionListening == startup.scoped_session = "QueuePool"

\* The locals of a thread that runs no call.
NoCall ==
    [op |-> "none", query |-> "", key |-> <<>>, ttl |-> 0, chunk |-> 0,
     text |-> [records |-> <<>>], rows |-> <<>>, chunks |-> <<>>,
     n |-> 0, b |-> 0, i |-> 0, inserted |-> 0, pending |-> <<>>,
     tmp |-> 0, slow |-> FALSE, cont |-> "idle", waited |-> 0,
     \* bookkeeping of the call, read by the properties only
     acq |-> 0, fq |-> 0, cacheFault |-> FALSE, fault |-> "none",
     within |-> FALSE, batches |-> <<>>, committed |-> <<>>, failedAt |-> 0,
     base |-> 0, result |-> <<>>, hit |-> FALSE,
     healthy |-> FALSE, listened |-> 0, columns |-> <<>>, params |-> <<>>,
     pattern |-> <<>>, via |-> "none"]

\* ------------------------------------------------------------------- pool
Held == {conn[t] : t \in Callers} \ {NoConn}

\* Mutant: the overflow is not limited.
AvailableNoLimit ==
    IF free # {} THEN free ELSE {CHOOSE c \in Conns : c \notin Held}

\* QueuePool._do_get: a checked-in connection if there is one, else a new
\* one while fewer than pool_size + max_overflow exist, else none (wait).
\* The fallback engine's NullPool opens a connection for every checkout.
Available ==
    IF engine = "NullPool" THEN {CHOOSE c \in Conns : c \notin Held}
    ELSE IF free # {} THEN free
    ELSE IF Cardinality(Held) < PoolSize + MaxOverflow
         THEN {CHOOSE c \in Conns : c \notin Held}
         ELSE {}

\* Mutant: the handed-out connection stays in the queue.
FreeAfterCheckoutKept(c) == free

\* The checked-in connections once c is handed out.
FreeAfterCheckout(c) == free \ {c}

\* QueuePool._do_return_conn: back into the queue (maxsize pool_size), or
\* closed when the queue is full.  NullPool closes every returned connection.
FreeAfterCheckin(c) ==
    IF engine = "QueuePool" /\ Cardinality(free) < PoolSize
    THEN free \cup {c}
    ELSE free

\* engine.connect() / the session's first statement: check a connection out.
Checkout(t) ==
    /\ conn[t] = NoConn
    /\ \E c \in Available :
          /\ conn' = [conn EXCEPT ![t] = c]
          /\ free' = FreeAfterCheckout(c)

\* Mutant: the connection is never checked in.
ReleaseLeak(t) == UNCHANGED <<conn, free>>

\* Connection.close() / Session.commit, rollback, close: check it in.
Release(t) ==
    IF conn[t] = NoConn
    THEN UNCHANGED <<conn, free>>
    ELSE /\ conn' = [conn EXCEPT ![t] = NoConn]
         /\ free' = FreeAfterCheckin(conn[t])

\* Mutant: the connection is released on the normal path only.
release_on_error_missing(t) == UNCHANGED <<conn, free>>

\* The release on an exception path: the with block's exit (line 266) and
\* get_session's rollback and close (lines 196-202).
release_on_error(t) == Release(t)

\* ------------------------------------------------------------ cache store
Entry(payload, ttl) == [payload |-> payload, ttl |-> ttl]

\* result.keys(): the columns of the result, whatever its rows.
result_keys == <<"value">>

\* A cell of a result: an int n, a float n.frac (frac: its decimal digits,
\* none for an integral float), a string s, a timestamp (instant n) or a
\* null.  The string "iso8601" stands for the ISO text of the instant n.
Cell(ty, n, frac, s) == [ty |-> ty, n |-> n, frac |-> frac, s |-> s]
IntCell(n) == Cell("int", n, <<>>, "")
FloatCell(n, frac) == Cell("float", n, frac, "")
StrCell(s) == Cell("str", 0, <<>>, s)
TimeCell(n) == Cell("timestamp", n, <<>>, "")
NullCell == Cell("null", 0, <<>>, "")

\* A JSON value: a number, a string or null.
Json(j, n, frac, s) == [j |-> j, n |-> n, frac |-> frac, s |-> s]

\* A decimal fraction without its trailing zeros.
RECURSIVE Strip(_)
Strip(frac) ==
    IF Len(frac) > 0 /\ frac[Len(frac)] = 0
    THEN Strip(SubSeq(frac, 1, Len(frac) - 1))
    ELSE frac

\* to_json of one cell: a float is written with double_precision decimals,
\* a timestamp as its ISO text (date_format='iso').
JsonOf(c) ==
    CASE c.ty = "int" -> Json("number", c.n, <<>>, "")
      [] c.ty = "float" ->
            Json("number", c.n,
                 Strip(SubSeq(c.frac, 1, Min(Len(c.frac), double_precision))),
                 "")
      [] c.ty = "str" -> Json("string", c.n, <<>>, c.s)
      [] c.ty = "timestamp" -> Json("string", c.n, <<>>, "iso8601")
      [] OTHER -> Json("null", 0, <<>>, "")

\* DataFrame.to_json(orient='records', date_format='iso')
to_json(df) == [records |-> [i \in 1..Len(df) |-> JsonOf(df[i])]]

\* read_json converts to dates only the columns with a date-like name
\* (keep_default_dates; also names ending in _at or _time or starting with
\* timestamp).
DateLike(column) == column \in {"date", "datetime", "modified"}

\* The number a text of digits denotes, -1 for any other text.
Numeric(s) == IF s = "007" THEN 7 ELSE -1

\* pd.read_json(orient='records'): the column's type is inferred from its
\* values.  A column of strings that all read as numbers becomes numeric,
\* a numeric column without nulls whose values are all integral becomes
\* int, ISO texts become timestamps in a date-like column only.
read_json_column(text, column) ==
    LET recs == text.records
        I == 1..Len(recs)
        strings == {i \in I : recs[i].j = "string"}
        digits == /\ strings # {}
                  /\ \A i \in strings : Numeric(recs[i].s) >= 0
        dates == /\ DateLike(column)
                 /\ \A i \in strings : recs[i].s = "iso8601"
        integral == \A i \in I : recs[i].j # "null" /\ recs[i].frac = <<>>
    IN [i \in I |->
           CASE recs[i].j = "null" -> NullCell
             [] recs[i].j = "number" ->
                   IF integral THEN IntCell(recs[i].n)
                   ELSE FloatCell(recs[i].n, recs[i].frac)
             [] OTHER ->
                   IF dates THEN TimeCell(recs[i].n)
                   ELSE IF digits
                        THEN IF integral THEN IntCell(Numeric(recs[i].s))
                             ELSE FloatCell(Numeric(recs[i].s), <<>>)
                        ELSE Cell("str", recs[i].n, <<>>, recs[i].s)]

read_json(text) == read_json_column(text, result_keys[1])

\* redis GET: the entry under key, if any (an expired entry is gone).
Cached(key) == key \in DOMAIN cache

\* _get_from_cache returns a frame (a hit): the client exists, GET succeeds
\* and returns a non-empty text.
CacheHit(key) == redis_client /\ redisUp /\ Cached(key)

\* _set_cache stores: the client exists and the frame is not empty; SETEX
\* succeeds when the store answers and the expiry is positive.
SetCacheStores(df, ttl) ==
    redis_client /\ Len(df) > 0 /\ redisUp /\ ttl > 0

\* _set_cache met an exception (caught and logged).
SetCacheFails(df, ttl) ==
    redis_client /\ Len(df) > 0 /\ ~(redisUp /\ ttl > 0)

set_cache(key, df, ttl) ==
    IF SetCacheStores(df, ttl)
    THEN (key :> Entry(to_json(df), ttl)) @@ cache
    ELSE cache

\* --------------------------------------------------------- backing store
\* What the store answers to a query: "all" selects every committed row,
\* "none" has a predicate no row satisfies.
QueryResult(query) == IF query = "all" THEN table ELSE <<>>

\* ------------------------------------------------------------- call ends
\* The call whose locals are c returns result (outcome "returned") or
\* raises (outcome "raised").
Finish(t, c, outcome, result, hit) ==
    /\ pc' = [pc EXCEPT ![t] = outcome]
    /\ call' = [call EXCEPT ![t] = [c EXCEPT !.result = result, !.hit = hit]]

\* The caller has the call's result or exception; the thread is idle again.
resume(t) ==
    /\ pc[t] \in {"returned", "raised"}
    /\ pc' = [pc EXCEPT ![t] = "idle"]
    /\ call' = [call EXCEPT ![t] = NoCall]
    /\ UNCHANGED <<conn, free, engine, startup, limiter, redis_client, redisUp, cache,
                   query_metrics, events, table, window, budget>>

\* self.query_metrics[counter] = <the value read earlier> + 1
StoreCounter(counter, read) ==
    /\ query_metrics' = [query_metrics EXCEPT ![counter] = read + 1]
    /\ events' = [events EXCEPT ![counter] = @ + 1]

\* An exception reaches the handler's except clause: the connection is
\* already released; failed_queries is read for the += 1 that follows.
Raise(t, c, kind) ==
    /\ pc' = [pc EXCEPT ![t] = "fail_w"]
    /\ call' = [call EXCEPT ![t] =
           [c EXCEPT !.tmp = query_metrics["failed_queries"],
                     !.fault = kind, !.pending = <<>>]]

\* The thread waits in the pool's queue.get(timeout=pool_timeout).
Waiting(t) == pc[t] \in {"connect", "b_connect", "h_connect"}

\* ------------------------------------------------- execute_query_optimized
RECURSIVE Concat(_)
\* pd.concat(chunks, ignore_index=True)
Concat(chunks) ==
    IF Len(chunks) = 0 THEN <<>>
    ELSE chunks[1] \o Concat(Tail(chunks))

NewExecute(query, params, ttl, chunk) ==
    LET key == get_cache_key(query, params)
    IN [NoCall EXCEPT !.op = "execute", !.query = query, !.key = key,
                      !.params = params,
                      !.ttl = ttl, !.chunk = chunk,
                      !.within = (key \in DOMAIN window)]

\* Lines 254-257: json.dumps raises on the params; nothing catches it.
execute_key_error(t, query, params, ttl, chunk) ==
    /\ Ready
    /\ pc[t] = "idle" /\ budget > 0
    /\ ~Serializable(params)
    /\ budget' = budget - 1
    /\ Finish(t, [NoCall EXCEPT !.op = "execute", !.query = query,
                                 !.fault = "key"],
              "raised", <<>>, FALSE)
    /\ UNCHANGED <<conn, free, engine, startup, limiter, redis_client, redisUp, cache,
                   query_metrics, events, table, window>>

\* Lines 257-260, 215-216: the cache answers; cache_hits is read for += 1.
execute_hit(t, query, params, ttl, chunk) ==
    /\ Ready
    /\ pc[t] = "idle" /\ budget > 0
    /\ Serializable(params)
    /\ CacheHit(get_cache_key(query, params))
    /\ budget' = budget - 1
    /\ pc' = [pc EXCEPT ![t] = "hit_w"]
    /\ call' = [call EXCEPT ![t] =
           [NewExecute(query, params, ttl, chunk) EXCEPT
               !.tmp = query_metrics["cache_hits"],
               !.text = cache[get_cache_key(query, params)].payload]]
    /\ UNCHANGED <<conn, free, engine, startup, limiter, redis_client, redisUp, cache,
                   query_metrics, events, table, window>>

\* Lines 217-218, 260: cache_hits is stored, the cached text is parsed and
\* returned; its records (never none, see _set_cache) carry the columns.
execute_hit_return(t) ==
    /\ pc[t] = "hit_w"
    /\ StoreCounter("cache_hits", call[t].tmp)
    /\ Finish(t, [call[t] EXCEPT !.columns = result_keys],
              "returned", read_json(call[t].text), TRUE)
    /\ UNCHANGED <<conn, free, engine, startup, limiter, redis_client, redisUp, cache,
                   table, window, budget>>

\* Mutant: the exception of a failed GET is not caught.
execute_miss_uncaught(t, query, params, ttl, chunk) ==
    /\ Ready
    /\ pc[t] = "idle" /\ budget > 0
    /\ Serializable(params)
    /\ ~CacheHit(get_cache_key(query, params))
    /\ budget' = budget - 1
    /\ IF redis_client /\ ~redisUp
       THEN Finish(t, [NewExecute(query, params, ttl, chunk) EXCEPT
                          !.cacheFault = TRUE], "raised", <<>>, FALSE)
       ELSE /\ pc' = [pc EXCEPT ![t] = "connect"]
            /\ call' = [call EXCEPT ![t] =
                            NewExecute(query, params, ttl, chunk)]
    /\ UNCHANGED <<conn, free, engine, startup, limiter, redis_client, redisUp, cache,
                   query_metrics, events, table, window>>

\* Lines 257-263: no client, a failed GET (caught) or no live entry.
execute_miss(t, query, params, ttl, chunk) ==
    /\ Ready
    /\ pc[t] = "idle" /\ budget > 0
    /\ Serializable(params)
    /\ ~CacheHit(get_cache_key(query, params))
    /\ budget' = budget - 1
    /\ pc' = [pc EXCEPT ![t] = "connect"]
    /\ call' = [call EXCEPT ![t] =
           [NewExecute(query, params, ttl, chunk) EXCEPT
               !.cacheFault = (redis_client /\ ~redisUp)]]
    /\ UNCHANGED <<conn, free, engine, startup, limiter, redis_client, redisUp, cache,
                   query_metrics, events, table, window>>

\* Line 266: engine.connect() obtains a connection.
execute_connect(t) ==
    /\ pc[t] = "connect"
    /\ Checkout(t)
    /\ pc' = [pc EXCEPT ![t] = "run"]
    /\ call' = [call EXCEPT ![t].acq = @ + 1, ![t].waited = 0,
                            ![t].via = engine]
    /\ UNCHANGED <<engine, startup, limiter, redis_client, redisUp, cache,
                   query_metrics, events, table, window, budget>>

\* Line 266: pool_timeout elapsed with no connection: TimeoutError.
execute_connect_timeout(t) ==
    /\ pc[t] = "connect"
    /\ Available = {}
    /\ call[t].waited >= PoolTimeout
    /\ Raise(t, call[t], "pool")
    /\ UNCHANGED <<conn, free, engine, startup, limiter, redis_client, redisUp, cache,
                   query_metrics, events, table, window, budget>>

\* Where a thread goes once the store has run its statement: into the
\* after_execute listener if one is registered on the engine, else on.
AfterExecute(cont) == IF Listening THEN "count_w" ELSE cont

AfterSessionExecute(cont) == IF SessionListening THEN "count_w" ELSE cont

\* Line 267 and the after_execute listener's read of total_queries
\* (lines 169-171): the store runs the statement.
execute_run(t, slow) ==
    /\ pc[t] = "run"
    /\ pc' = [pc EXCEPT ![t] = AfterExecute("fetch")]
    /\ call' = [call EXCEPT ![t].rows = QueryResult(call[t].query),
                            ![t].tmp = query_metrics["total_queries"],
                            ![t].slow = slow,
                            ![t].cont = "fetch"]
    /\ UNCHANGED <<conn, free, engine, startup, limiter, redis_client, redisUp, cache,
                   query_metrics, events, table, window, budget>>

\* Line 267 raises: the with block releases the connection.
execute_run_fail(t) ==
    /\ pc[t] = "run"
    /\ release_on_error(t)
    /\ Raise(t, call[t], "store")
    /\ UNCHANGED <<engine, startup, limiter, redis_client, redisUp, cache,
                   query_metrics, events, table, window, budget>>

\* Lines 171-174: total_queries is stored; a statement that took more than
\* one second has slow_queries read for its own += 1.
count_write(t) ==
    /\ pc[t] = "count_w"
    /\ StoreCounter("total_queries", call[t].tmp)
    /\ pc' = [pc EXCEPT ![t] = IF call[t].slow THEN "slow_w" ELSE call[t].cont]
    /\ call' = [call EXCEPT ![t].tmp = IF call[t].slow
                                        THEN query_metrics["slow_queries"]
                                        ELSE 0,
                            ![t].listened = @ + 1]
    /\ UNCHANGED <<conn, free, engine, startup, limiter, redis_client, redisUp, cache,
                   table, window, budget>>

\* Lines 175-176: slow_queries is stored.
slow_write(t) ==
    /\ pc[t] = "slow_w"
    /\ StoreCounter("slow_queries", call[t].tmp)
    /\ pc' = [pc EXCEPT ![t] = call[t].cont]
    /\ call' = [call EXCEPT ![t].slow = FALSE, ![t].listened = @ + 1]
    /\ UNCHANGED <<conn, free, engine, startup, limiter, redis_client, redisUp, cache,
                   table, window, budget>>

\* The rows fetchmany(chunk_size) returns next.
NextChunk(c) ==
    LET fetched == Len(Concat(c.chunks))
    IN SubSeq(c.rows, fetched + 1, Min(fetched + c.chunk, Len(c.rows)))

\* Lines 270-276: one fetchmany; an empty chunk ends the loop and the with
\* block releases the connection.
execute_fetch(t) ==
    /\ pc[t] = "fetch"
    /\ IF NextChunk(call[t]) = <<>>
       THEN /\ Release(t)
            /\ pc' = [pc EXCEPT ![t] = "combine"]
            /\ call' = call
       ELSE /\ UNCHANGED <<conn, free, pc>>
            /\ call' = [call EXCEPT ![t].chunks =
                            Append(@, NextChunk(call[t]))]
    /\ UNCHANGED <<engine, startup, limiter, redis_client, redisUp, cache,
                   query_metrics, events, table, window, budget>>

\* Mutant: the chunks read before the failure are cached.
execute_fetch_fail_caches(t) ==
    /\ pc[t] = "fetch"
    /\ release_on_error(t)
    /\ Raise(t, call[t], "store")
    /\ cache' = set_cache(call[t].key, Concat(call[t].chunks), call[t].ttl)
    /\ UNCHANGED <<engine, startup, limiter, redis_client, redisUp,
                   query_metrics, events, table, window, budget>>

\* Line 271 raises: the with block releases the connection.
execute_fetch_fail(t) ==
    /\ pc[t] = "fetch"
    /\ release_on_error(t)
    /\ Raise(t, call[t], "store")
    /\ UNCHANGED <<engine, startup, limiter, redis_client, redisUp, cache,
                   query_metrics, events, table, window, budget>>

\* Lines 283-291: the chunks are combined, cached and returned; with no
\* chunk an empty frame is returned and _set_cache is not called.  Every
\* chunk frame has the columns result.keys() (line 275) and so has their
\* concatenation; pd.DataFrame() has no columns.
execute_finish(t) ==
    /\ pc[t] = "combine"
    /\ LET df == Concat(call[t].chunks)
           c == [call[t] EXCEPT
                    !.cacheFault = @ \/ SetCacheFails(df, call[t].ttl),
                    !.columns = IF call[t].chunks = <<>>
                                THEN <<>>
                                ELSE result_keys]
       IN /\ cache' = set_cache(call[t].key, df, call[t].ttl)
          /\ window' = IF redis_client /\ ~c.cacheFault /\ call[t].ttl > 0
                       THEN (call[t].key :> call[t].ttl) @@ window
                       ELSE window
          /\ Finish(t, c, "returned", df, FALSE)
    /\ UNCHANGED <<conn, free, engine, startup, limiter, redis_client, redisUp,
                   query_metrics, events, table, budget>>

\* Lines 294-296 (and 198-200 for a session): failed_queries is stored and
\* the exception is raised again.
fail_write(t) ==
    /\ pc[t] = "fail_w"
    /\ StoreCounter("failed_queries", call[t].tmp)
    /\ Finish(t, [call[t] EXCEPT !.fq = @ + 1], "raised", <<>>, FALSE)
    /\ UNCHANGED <<conn, free, engine, startup, limiter, redis_client, redisUp, cache,
                   table, window, budget>>

\* ------------------------------------------------------------ health_check
\* Mutant: the exception leaves health_check.
HealthRaises(t, kind) ==
    Finish(t, [call[t] EXCEPT !.fault = kind, !.healthy = FALSE],
           "raised", <<>>, FALSE)

\* Lines 401-403: the except clause logs the exception and returns False.
HealthFailed(t, kind) ==
    Finish(t, [call[t] EXCEPT !.fault = kind, !.healthy = FALSE],
           "returned", <<>>, FALSE)

\* Lines 394-397: the probe asks the engine for a connection.
health_start(t) ==
    /\ Ready
    /\ pc[t] = "idle" /\ budget > 0
    /\ budget' = budget - 1
    /\ pc' = [pc EXCEPT ![t] = "h_connect"]
    /\ call' = [call EXCEPT ![t] = [NoCall EXCEPT !.op = "health"]]
    /\ UNCHANGED <<conn, free, engine, startup, limiter, redis_client, redisUp, cache,
                   query_metrics, events, table, window>>

\* Line 397: engine.connect() obtains a connection.
health_connect(t) ==
    /\ pc[t] = "h_connect"
    /\ Checkout(t)
    /\ pc' = [pc EXCEPT ![t] = "h_run"]
    /\ call' = [call EXCEPT ![t].acq = @ + 1, ![t].waited = 0,
                            ![t].via = engine]
    /\ UNCHANGED <<engine, startup, limiter, redis_client, redisUp, cache,
                   query_metrics, events, table, window, budget>>

\* Line 397: pool_timeout elapsed with no connection; the TimeoutError is
\* caught.
health_connect_timeout(t) ==
    /\ pc[t] = "h_connect"
    /\ Available = {}
    /\ call[t].waited >= PoolTimeout
    /\ HealthFailed(t, "pool")
    /\ UNCHANGED <<conn, free, engine, startup, limiter, redis_client, redisUp, cache,
                   query_metrics, events, table, window, budget>>

\* Line 398 and the after_execute listener's read of total_queries (lines
\* 169-171): the store answers SELECT 1.
health_run(t, slow) ==
    /\ pc[t] = "h_run"
    /\ pc' = [pc EXCEPT ![t] = AfterExecute("h_done")]
    /\ call' = [call EXCEPT ![t].tmp = query_metrics["total_queries"],
                            ![t].slow = slow,
                            ![t].cont = "h_done"]
    /\ UNCHANGED <<conn, free, engine, startup, limiter, redis_client, redisUp, cache,
                   query_metrics, events, table, window, budget>>

\* Line 398 raises (the store is unreachable): the with block releases the
\* connection and the except clause returns False.
health_run_fail(t) ==
    /\ pc[t] = "h_run"
    /\ release_on_error(t)
    /\ HealthFailed(t, "store")
    /\ UNCHANGED <<engine, startup, limiter, redis_client, redisUp, cache,
                   query_metrics, events, table, window, budget>>

\* Lines 399-400: the row is fetched, the with block releases the
\* connection and True is returned.
health_done(t) ==
    /\ pc[t] = "h_done"
    /\ Release(t)
    /\ Finish(t, [call[t] EXCEPT !.healthy = TRUE], "returned", <<>>, FALSE)
    /\ UNCHANGED <<engine, startup, limiter, redis_client, redisUp, cache,
                   query_metrics, events, table, window, budget>>

\* ------------------------------------------------- metrics and pool status
\* Lines 343-358.  Only a QueuePool has size(): with no engine or on the
\* fallback engine's NullPool the status is 'unavailable'.
\* Mutant: the status is reported without the test for a sized pool.
get_connection_pool_status_no_test ==
    [size |-> PoolSize,
     checked_in |-> Cardinality(free),
     checked_out |-> Cardinality(Held),
     overflow |-> Cardinality(free) + Cardinality(Held) - PoolSize,
     total |-> Cardinality(free) + Cardinality(Held)]

\* QueuePool counts its connections: overflow() is their number less
\* pool_size, checkedin() the length of the queue.
get_connection_pool_status ==
    IF engine # "QueuePool"
    THEN [status |-> "unavailable"]
    ELSE [size |-> PoolSize,
          checked_in |-> Cardinality(free),
          checked_out |-> Cardinality(Held),
          overflow |-> Cardinality(free) + Cardinality(Held) - PoolSize,
          total |-> Cardinality(free) + Cardinality(Held)]

\* Line 364-367: cache_hits / max(1, total_queries) * 100, kept as the
\* fraction num / den.
cache_hit_rate ==
    [num |-> query_metrics["cache_hits"] * 100,
     den |-> IF query_metrics["total_queries"] > 1
             THEN query_metrics["total_queries"]
             ELSE 1]

\* Lines 360-372.
get_metrics ==
    [counters |-> query_metrics,
     cache_hit_rate |-> cache_hit_rate,
     connection_pool |-> get_connection_pool_status,
     redis_available |-> redis_client]

\* --------------------------------------------------- bulk_insert_optimized
\* data: n rows, holding the ints 1..n in input order.
Data(n) == [k \in 1..n |-> IntCell(k)]

\* Mutant: the slice ends one row early.
BatchShort(c) == SubSeq(Data(c.n), c.i + 1, Min(c.i + c.b, c.n) - 1)

\* data[i:i + batch_size]
Batch(c) == SubSeq(Data(c.n), c.i + 1, Min(c.i + c.b, c.n))

\* Lines 312-313: nothing to insert.
bulk_empty(t, b) ==
    /\ Ready
    /\ pc[t] = "idle" /\ budget > 0
    /\ budget' = budget - 1
    /\ Finish(t, [NoCall EXCEPT !.op = "bulk", !.b = b,
                                 !.base = Len(table)],
              "returned", <<>>, FALSE)
    /\ UNCHANGED <<conn, free, engine, startup, limiter, redis_client, redisUp, cache,
                   query_metrics, events, table, window>>

\* Lines 315-320, 192: the thread's scoped session is entered.
bulk_start(t, n, b) ==
    /\ Ready
    /\ pc[t] = "idle" /\ budget > 0
    /\ n > 0 /\ b > 0
    /\ budget' = budget - 1
    /\ pc' = [pc EXCEPT ![t] = "b_connect"]
    /\ call' = [call EXCEPT ![t] =
           [NoCall EXCEPT !.op = "bulk", !.n = n, !.b = b,
                          !.base = Len(table)]]
    /\ UNCHANGED <<conn, free, engine, startup, limiter, redis_client, redisUp, cache,
                   query_metrics, events, table, window>>

\* Line 324: the session has no connection (first statement, or first after
\* a commit) and checks one out of the engine self.scoped_session is bound
\* to (lines 101-107, 192).  On the fallback that engine is the pooled one
\* of the last attempt; its pool is not the manager's and no thread waits
\* for it here.
bulk_connect(t) ==
    /\ pc[t] = "b_connect"
    /\ Checkout(t)
    /\ pc' = [pc EXCEPT ![t] = "b_batch"]
    /\ call' = [call EXCEPT ![t].acq = @ + 1, ![t].waited = 0,
                            ![t].via = startup.scoped_session]
    /\ UNCHANGED <<engine, startup, limiter, redis_client, redisUp, cache,
                   query_metrics, events, table, window, budget>>

\* Line 324: pool_timeout elapsed; lines 196-197: rollback.
bulk_connect_timeout(t) ==
    /\ pc[t] = "b_connect"
    /\ Available = {}
    /\ call[t].waited >= PoolTimeout
    /\ Raise(t, [call[t] EXCEPT !.failedAt = (call[t].i \div call[t].b) + 1],
             "pool")
    /\ UNCHANGED <<conn, free, engine, startup, limiter, redis_client, redisUp, cache,
                   query_metrics, events, table, window, budget>>

\* Lines 321-327 and the after_execute listener's read of total_queries:
\* one batch is submitted as one batched insert.
bulk_batch(t, slow) ==
    /\ pc[t] = "b_batch"
    /\ pc' = [pc EXCEPT ![t] = AfterSessionExecute("b_next")]
    /\ call' = [call EXCEPT ![t].pending = @ \o Batch(call[t]),
                            ![t].batches = Append(@, Batch(call[t])),
                            ![t].tmp = query_metrics["total_queries"],
                            ![t].slow = slow,
                            ![t].cont = "b_next"]
    /\ UNCHANGED <<conn, free, engine, startup, limiter, redis_client, redisUp, cache,
                   query_metrics, events, table, window, budget>>

\* Mutant: the failed insert's open transaction is committed, not rolled
\* back.
bulk_batch_fail_no_rollback(t) ==
    /\ pc[t] = "b_batch"
    /\ release_on_error(t)
    /\ Raise(t, [call[t] EXCEPT !.failedAt = (call[t].i \div call[t].b) + 1],
             "store")
    /\ table' = table \o call[t].pending
    /\ UNCHANGED <<engine, startup, limiter, redis_client, redisUp, cache,
                   query_metrics, events, window, budget>>

\* Line 324 raises; lines 196-197, 202: the session rolls back, which
\* discards the open transaction and releases the connection.
bulk_batch_fail(t) ==
    /\ pc[t] = "b_batch"
    /\ release_on_error(t)
    /\ Raise(t, [call[t] EXCEPT !.failedAt = (call[t].i \div call[t].b) + 1],
             "store")
    /\ UNCHANGED <<engine, startup, limiter, redis_client, redisUp, cache,
                   query_metrics, events, table, window, budget>>

\* Mutant: a commit after every batch.
CommitDueEveryBatch(inserted, b) == TRUE

\* Line 332: the periodic commit is due after `inserted` rows.
CommitDue(inserted, b) == inserted % (b * CommitEvery) = 0

\* Lines 329-334: inserted is advanced; a due commit persists the open
\* transaction and releases the connection.
bulk_next(t) ==
    /\ pc[t] = "b_next"
    /\ LET c == call[t]
           inserted == c.inserted + Len(Batch(c))
           i == c.i + c.b
           commit == CommitDue(inserted, c.b)
       IN /\ IF commit
             THEN /\ table' = table \o c.pending
                  /\ Release(t)
             ELSE UNCHANGED <<table, conn, free>>
          /\ call' = [call EXCEPT
                 ![t].inserted = inserted,
                 ![t].i = i,
                 ![t].pending = IF commit THEN <<>> ELSE @,
                 ![t].committed = IF commit THEN @ \o c.pending ELSE @]
          /\ pc' = [pc EXCEPT ![t] =
                 IF i >= c.n THEN "b_commit"
                 ELSE IF commit THEN "b_connect" ELSE "b_batch"]
    /\ UNCHANGED <<engine, startup, limiter, redis_client, redisUp, cache,
                   query_metrics, events, window, budget>>

\* Mutant: a completed insert invalidates the cached results.
bulk_commit_invalidates(t) ==
    /\ pc[t] = "b_commit"
    /\ table' = table \o call[t].pending
    /\ Release(t)
    /\ Finish(t, [call[t] EXCEPT !.committed = @ \o call[t].pending,
                                 !.pending = <<>>],
              "returned", <<>>, FALSE)
    /\ cache' = <<>>
    /\ UNCHANGED <<engine, startup, limiter, redis_client, redisUp,
                   query_metrics, events, window, budget>>

\* Lines 336-337, 195, 202: the final commit, get_session's own commit (it
\* finds nothing open) and close.
bulk_commit(t) ==
    /\ pc[t] = "b_commit"
    /\ table' = table \o call[t].pending
    /\ Release(t)
    /\ Finish(t, [call[t] EXCEPT !.committed = @ \o call[t].pending,
                                 !.pending = <<>>],
              "returned", <<>>, FALSE)
    /\ UNCHANGED <<engine, startup, limiter, redis_client, redisUp, cache,
                   query_metrics, events, window, budget>>

\* Line 333 raises (the periodic commit fails); lines 196-197.
bulk_periodic_commit_fail(t) ==
    /\ pc[t] = "b_next"
    /\ CommitDue(call[t].inserted + Len(Batch(call[t])), call[t].b)
    /\ release_on_error(t)
    /\ Raise(t, call[t], "commit")
    /\ UNCHANGED <<engine, startup, limiter, redis_client, redisUp, cache,
                   query_metrics, events, table, window, budget>>

\* Line 336 raises (an open transaction fails to commit); lines 196-197.
bulk_commit_fail(t) ==
    /\ pc[t] = "b_commit"
    /\ conn[t] # NoConn
    /\ release_on_error(t)
    /\ Raise(t, call[t], "commit")
    /\ UNCHANGED <<engine, startup, limiter, redis_client, redisUp, cache,
                   query_metrics, events, table, window, budget>>

\* ------------------------------------------------------------ clear_cache
IsPrefix(p, s) == Len(p) <= Len(s) /\ SubSeq(s, 1, Len(p)) = p

\* The glob match of redis KEYS: * stands for any text, ? for any one
\* character, every other character for itself.
RECURSIVE Glob(_, _)
Glob(p, s) ==
    IF p = <<>> THEN s = <<>>
    ELSE IF Head(p) = "*"
         THEN Glob(Tail(p), s) \/ (s # <<>> /\ Glob(p, Tail(s)))
         ELSE /\ s # <<>>
              /\ Head(p) = "?" \/ Head(p) = Head(s)
              /\ Glob(Tail(p), Tail(s))

\* redis KEYS f"query_cache:{pattern}*" (pattern None or empty:
\* "query_cache:*"), among keys.
Matching(keys, pattern) ==
    {k \in keys : Glob(<<"query_cache:">> \o pattern \o <<"*">>, k)}

\* Lines 374-392, called by thread t: without a client nothing happens; an
\* exception of the store is caught and logged; the call returns.
clear_cache(t, pattern) ==
    /\ Ready
    /\ pc[t] = "idle"
    /\ cache' = IF redis_client /\ redisUp
                THEN [k \in DOMAIN cache \ Matching(DOMAIN cache, pattern)
                         |-> cache[k]]
                ELSE cache
    /\ window' = IF redis_client /\ redisUp
                 THEN [k \in DOMAIN window \ Matching(DOMAIN window, pattern)
                          |-> window[k]]
                 ELSE window
    /\ Finish(t, [NoCall EXCEPT !.op = "clear", !.pattern = pattern,
                                !.cacheFault = (redis_client /\ ~redisUp)],
              "returned", <<>>, FALSE)
    /\ UNCHANGED <<conn, free, engine, startup, limiter, redis_client, redisUp,
                   query_metrics, events, table, budget>>

\* ------------------------------------------------------------ environment
\* The cache store becomes unreachable, or reachable again: while the
\* manager starts up, and later for as long as it has a cache client.
redis_flip ==
    /\ redis_client \/ startup.phase \in {"Connecting", "Testing"}
    /\ redisUp' = ~redisUp
    /\ UNCHANGED <<pc, call, conn, free, engine, startup, limiter, redis_client, cache,
                   query_metrics, events, table, window, budget>>

\* The thread is blocked in the pool's queue: no connection can be had.
Blocked(t) == Waiting(t) /\ Available = {}

\* One unit of time passes: the waits of blocked threads grow (a wait that
\* has reached pool_timeout ends first), cache entries age and expire.
Tick ==
    /\ \A t \in Callers : Blocked(t) => call[t].waited < PoolTimeout
    /\ call' = [t \in Callers |->
                   IF Blocked(t)
                   THEN [call[t] EXCEPT !.waited = @ + 1]
                   ELSE call[t]]
    /\ cache' = [k \in {x \in DOMAIN cache : cache[x].ttl > 1}
                     |-> [cache[k] EXCEPT !.ttl = @ - 1]]
    /\ window' = [k \in {x \in DOMAIN window : window[x] > 1}
                      |-> window[k] - 1]
    /\ UNCHANGED <<pc, conn, free, engine, startup, limiter, redis_client, redisUp,
                   query_metrics, events, table, budget>>

\* ---------------------------------------------------------------- startup
\* Line 145 and the loop's next iteration: after the k-th failed attempt
\* (attempt = k - 1 in the code) the thread sleeps retry_delay * k seconds
\* and starts attempt k + 1.
RetryConstantDelay(s, k) ==
    [s EXCEPT !.phase = "Connecting", !.attempt = k + 1,
              !.delays = Append(@, retry_delay)]

Retry(s, k) ==
    [s EXCEPT !.phase = "Connecting", !.attempt = k + 1,
              !.delays = Append(@, retry_delay * k)]

\* Lines 150-159: create_engine connects lazily, so the fallback engine is
\* created whenever the URL is there; without one create_engine(None) raises
\* and the exception leaves __init__.  self.engine and self.session_factory
\* are replaced, self.scoped_session is not.
initialize_fallback_connection(s) ==
    [s EXCEPT !.phase = IF s.db_url THEN "Degraded" ELSE "Fatal"]

\* Lines 142-148: the except clause of the attempt under way.
AttemptFailed(cause) ==
    LET failed == [startup EXCEPT !.causes = Append(@, cause)]
    IN  IF startup.attempt < max_retries
        THEN Retry(failed, startup.attempt)
        ELSE initialize_fallback_connection(failed)

\* The except clause ends in the fallback that replaces self.engine.
FallsBack == startup.attempt = max_retries /\ startup.db_url

\* Lines 62-131, 142-148: the first half of an attempt.  Without a URL the
\* attempt fails at once (line 67); else a new pooled engine is created and,
\* if the redis module is there, the cache client is created and pinged, and
\* dropped if the ping fails.
startup_connect ==
    /\ startup.phase = "Connecting"
    /\ IF ~startup.db_url
       THEN /\ startup' = AttemptFailed("config")
            /\ UNCHANGED <<engine, free, redis_client>>
       ELSE /\ startup' = [startup EXCEPT !.phase = "Testing",
                                          !.scoped_session = "QueuePool"]
            /\ engine' = "QueuePool"
            /\ free' = {}
            /\ redis_client' = IF startup.REDIS_AVAILABLE
                               THEN redisUp
                               ELSE redis_client
    /\ UNCHANGED <<pc, call, conn, redisUp, cache, query_metrics, events,
                   table, window, budget, limiter>>

\* Lines 134-148, 178-187: the listeners are registered and the connections
\* tested: SELECT 1 on a pooled connection (dbOk: the store answers), which
\* the new listener counts, then a ping of the cache client if there is one.
\* Any exception ends the attempt in the except clause.
startup_test(dbOk) ==
    /\ startup.phase = "Testing"
    /\ LET pingFails == redis_client /\ ~redisUp
           failure == IF ~dbOk THEN "store"
                      ELSE IF pingFails THEN "cache" ELSE "none"
       IN  /\ startup' = IF failure = "none"
                         THEN [startup EXCEPT !.phase = "Connected"]
                         ELSE AttemptFailed(failure)
           /\ engine' = IF failure # "none" /\ FallsBack
                        THEN "NullPool"
                        ELSE engine
           /\ free' = IF failure # "none" /\ FallsBack
                      THEN {}
                      ELSE IF dbOk THEN {1} ELSE free
           /\ query_metrics' =
                  IF dbOk
                  THEN [query_metrics EXCEPT !["total_queries"] = @ + 1]
                  ELSE query_metrics
           /\ events' = IF dbOk
                        THEN [events EXCEPT !["total_queries"] = @ + 1]
                        ELSE events
    /\ UNCHANGED <<pc, call, conn, redis_client, redisUp, cache, table,
                   window, budget, limiter>>

\* ------------------------------------------------------- specifications
\* The manager after a successful pooled startup, with (client) or without
\* the cache client, over a backing store that holds the rows of tbl.
InitWith(client, tbl, calls) ==
    /\ pc = [t \in Callers |-> "idle"]
    /\ call = [t \in Callers |-> NoCall]
    /\ conn = [t \in Callers |-> NoConn]
    /\ free = {1}      \* _test_connections used one connection and returned it
    /\ redis_client = client
    /\ redisUp = TRUE
    /\ cache = <<>>
    /\ query_metrics = StartMetrics
    /\ events = StartMetrics
    /\ table = tbl
    /\ window = <<>>
    /\ InitLimiter
    /\ budget = calls
    /\ engine = "QueuePool"
    /\ startup = StartedPooled(client)

\* Concurrent callers on the pool, cache disabled (no REDIS_URL reachable at
\* startup): execute and small bulk inserts from every thread.
InitPool == InitWith(FALSE, <<IntCell(1)>>, MaxCalls)

NextPool ==
    \/ \E t \in Callers :
          \/ execute_miss(t, "all", <<>>, 0, 1)
          \/ bulk_start(t, SmallRows, 1)
          \/ execute_connect(t)
          \/ execute_connect_timeout(t)
          \/ execute_run(t, FALSE)
          \/ execute_run_fail(t)
          \/ execute_fetch(t)
          \/ execute_fetch_fail(t)
          \/ execute_finish(t)
          \/ bulk_connect(t)
          \/ bulk_connect_timeout(t)
          \/ bulk_batch(t, FALSE)
          \/ bulk_batch_fail(t)
          \/ bulk_next(t)
          \/ bulk_commit(t)
          \/ bulk_commit_fail(t)
          \/ count_write(t)
          \/ fail_write(t)
          \/ resume(t)
    \/ Tick

SpecPool == InitPool /\ [][NextPool]_vars

\* Three execute calls against a responsive store: every statement and
\* fetch succeeds and returns well within pool_timeout, so no wait reaches
\* it.  Threads are scheduled fairly.
live_step(t) ==
    \/ execute_connect(t)
    \/ execute_run(t, FALSE)
    \/ count_write(t)
    \/ execute_fetch(t)
    \/ execute_finish(t)
    \/ resume(t)

NextLive ==
    \E t \in Callers :
        \/ execute_miss(t, "all", <<>>, 0, 1)
        \/ live_step(t)

SpecLive ==
    InitPool /\ [][NextLive]_vars /\ \A t \in Callers : WF_vars(live_step(t))

\* Two threads on the query cache: execute with every kind of argument,
\* failing statements, an unreachable cache store, invalidation and expiry.
CacheCallers == 1..2
Queries == {"all", "none"}
ParamSets == {<<>>, <<Item(1, DateVal)>>}
Patterns == {<<>>} \cup {<<get_cache_key(q, <<>>)[2]>> : q \in Queries}

InitCache == InitWith(TRUE, <<IntCell(1)>>, CacheCalls)

NextCache ==
    \/ \E t \in CacheCallers :
          \/ \E q \in Queries, p \in ParamSets, ttl \in {0, MaxTTL} :
                \/ execute_key_error(t, q, p, ttl, 1)
                \/ execute_hit(t, q, p, ttl, 1)
                \/ execute_miss(t, q, p, ttl, 1)
          \/ execute_hit_return(t)
          \/ execute_connect(t)
          \/ execute_run(t, FALSE)
          \/ execute_run_fail(t)
          \/ execute_fetch(t)
          \/ execute_finish(t)
          \/ count_write(t)
          \/ fail_write(t)
          \/ \E pattern \in Patterns : clear_cache(t, pattern)
          \/ resume(t)
    \/ redis_flip
    \/ Tick

SpecCache == InitCache /\ [][NextCache]_vars

\* Two threads whose calls update all four counters of query_metrics:
\* cached and uncached execute calls with fast and slow statements and
\* failures of the store; the params are empty or one dictionary built in
\* either insertion order.
MetricParams ==
    {<<>>,
     <<Item(1, IntVal(1)), Item(2, IntVal(2))>>,
     <<Item(2, IntVal(2)), Item(1, IntVal(1))>>}

InitMetrics == InitWith(TRUE, <<IntCell(1)>>, MetricCalls)

NextMetrics ==
    \E t \in CacheCallers :
        \/ \E p \in MetricParams :
              \/ execute_hit(t, "all", p, MaxTTL, 1)
              \/ execute_miss(t, "all", p, MaxTTL, 1)
        \/ execute_hit_return(t)
        \/ execute_connect(t)
        \/ \E slow \in BOOLEAN : execute_run(t, slow)
        \/ execute_run_fail(t)
        \/ execute_fetch(t)
        \/ execute_finish(t)
        \/ count_write(t)
        \/ slow_write(t)
        \/ fail_write(t)
        \/ resume(t)

SpecMetrics == InitMetrics /\ [][NextMetrics]_vars

\* One thread inserting up to MaxRows rows in batches of up to MaxBatch,
\* with failures of a batch, of a periodic commit or of the final commit.
InitBulk == InitWith(FALSE, <<>>, BulkCalls)

NextBulk ==
    \/ \E b \in 1..MaxBatch : bulk_empty(1, b)
    \/ \E n \in 1..MaxRows, b \in 1..MaxBatch : bulk_start(1, n, b)
    \/ bulk_connect(1)
    \/ bulk_batch(1, FALSE)
    \/ bulk_batch_fail(1)
    \/ bulk_next(1)
    \/ bulk_periodic_commit_fail(1)
    \/ bulk_commit(1)
    \/ bulk_commit_fail(1)
    \/ count_write(1)
    \/ fail_write(1)
    \/ resume(1)

SpecBulk == InitBulk /\ [][NextBulk]_vars

\* One thread reads a table of 0..MaxResultRows rows in chunks of 1, of 7
\* and of MaxResultRows rows (at least the row count), cache disabled.
ChunkSizes == {1, 7, MaxResultRows}

InitChunk == \E n \in 0..MaxResultRows : InitWith(FALSE, Data(n), 1)

NextChunked ==
    \/ \E chunk \in ChunkSizes : execute_miss(1, "all", <<>>, 0, chunk)
    \/ execute_connect(1)
    \/ execute_run(1, FALSE)
    \/ count_write(1)
    \/ execute_fetch(1)
    \/ execute_finish(1)
    \/ resume(1)

SpecChunk == InitChunk /\ [][NextChunked]_vars

\* Two threads compute cache keys for both queries and every parameter
\* dictionary over the names 1, 2 and the values 1, 2, in every insertion
\* order; nothing is cached (cache_ttl = 0).
KeyParams ==
    {<<>>}
    \cup {<<Item(n, IntVal(v))>> : n \in 1..2, v \in 1..2}
    \cup {<<Item(n, IntVal(v)), Item(3 - n, IntVal(w))>> :
              n \in 1..2, v \in 1..2, w \in 1..2}

InitKey == InitWith(TRUE, <<IntCell(1)>>, KeyCalls)

NextKey ==
    \E t \in CacheCallers :
        \/ \E q \in Queries, p \in KeyParams : execute_miss(t, q, p, 0, 1)
        \/ execute_connect(t)
        \/ execute_run(t, FALSE)
        \/ count_write(t)
        \/ execute_fetch(t)
        \/ execute_finish(t)
        \/ resume(t)

SpecKey == InitKey /\ [][NextKey]_vars

\* One thread reads a one-column table through the cache: the call that
\* misses writes the entry, the next call is answered from it.  The column
\* holds ints, floats (short, integral, or with eleven decimals), strings
\* (one of them made of digits), timestamps, or nulls beside them.
Frac11 == <<1, 0, 0, 0, 0, 0, 0, 0, 0, 0, 1>>

RoundTripTables ==
    LET typed == {FloatCell(1, <<5>>), FloatCell(1, Frac11), FloatCell(2, <<>>),
                  StrCell("abc"), StrCell("007"), TimeCell(1)}
    IN  {<<IntCell(1)>>, <<IntCell(2), IntCell(1)>>, <<NullCell>>}
        \cup {<<c>> : c \in typed}
        \cup {<<c, NullCell>> : c \in typed}

InitRoundTrip ==
    \E tbl \in RoundTripTables : InitWith(TRUE, tbl, RoundTripCalls)

NextRoundTrip ==
    \/ execute_miss(1, "all", <<>>, MaxTTL, 1)
    \/ execute_hit(1, "all", <<>>, MaxTTL, 1)
    \/ execute_hit_return(1)
    \/ execute_connect(1)
    \/ execute_run(1, FALSE)
    \/ count_write(1)
    \/ execute_fetch(1)
    \/ execute_finish(1)
    \/ resume(1)

SpecRoundTrip == InitRoundTrip /\ [][NextRoundTrip]_vars

\* Two threads fill the cache with the results of one query under three
\* parameter sets (two of the keys start with the same character) and clear
\* it with no pattern, with the first character of a key, and with patterns
\* holding the characters * and ?.  The cache store also holds an entry of
\* another application, outside the query_cache: namespace.
ForeignKey == <<"session:", "0", "0">>

ClearParams == {<<>>, <<Item(2, IntVal(1))>>, <<Item(2, IntVal(2))>>}

ClearPatterns ==
    {<<>>, <<"*">>, <<"?", get_cache_key("all", <<Item(2, IntVal(2))>>)[3]>>}
    \cup {<<get_cache_key("all", p)[2]>> : p \in ClearParams}

InitClear ==
    /\ pc = [t \in Callers |-> "idle"]
    /\ call = [t \in Callers |-> NoCall]
    /\ conn = [t \in Callers |-> NoConn]
    /\ free = {1}
    /\ redis_client = TRUE
    /\ redisUp = TRUE
    /\ cache = (ForeignKey :> Entry(to_json(<<IntCell(1)>>), MaxTTL))
    /\ query_metrics = StartMetrics
    /\ events = StartMetrics
    /\ table = <<IntCell(1)>>
    /\ window = <<>>
    /\ InitLimiter
    /\ budget = ClearCalls
    /\ engine = "QueuePool"
    /\ startup = StartedPooled(TRUE)

NextClear ==
    \/ \E t \in CacheCallers :
          \/ \E p \in ClearParams : execute_miss(t, "all", p, MaxTTL, 1)
          \/ execute_connect(t)
          \/ execute_run(t, FALSE)
          \/ count_write(t)
          \/ execute_fetch(t)
          \/ execute_finish(t)
          \/ \E pattern \in ClearPatterns : clear_cache(t, pattern)
          \/ resume(t)
    \/ redis_flip

SpecClear == InitClear /\ [][NextClear]_vars

\* Two threads read a table of PartialRows rows through the cache, one row
\* per chunk, from a store that can fail at any fetch.
InitPartial == InitWith(TRUE, Data(PartialRows), PartialCalls)

NextPartial ==
    \E t \in CacheCallers :
        \/ execute_hit(t, "all", <<>>, MaxTTL, 1)
        \/ execute_miss(t, "all", <<>>, MaxTTL, 1)
        \/ execute_hit_return(t)
        \/ execute_connect(t)
        \/ execute_run(t, FALSE)
        \/ count_write(t)
        \/ execute_fetch(t)
        \/ execute_fetch_fail(t)
        \/ execute_finish(t)
        \/ fail_write(t)
        \/ resume(t)

SpecPartial == InitPartial /\ [][NextPartial]_vars

\* The manager under construction: __init__ has set its fields (lines 41-54)
\* and calls _initialize_connections, in an environment with or without a
\* database URL and the redis module, the cache store reachable or not.
InitStartup ==
    /\ pc = [t \in Callers |-> "idle"]
    /\ call = [t \in Callers |-> NoCall]
    /\ conn = [t \in Callers |-> NoConn]
    /\ free = {}
    /\ redis_client = FALSE
    /\ redisUp \in BOOLEAN
    /\ cache = <<>>
    /\ query_metrics = ZeroMetrics
    /\ events = ZeroMetrics
    /\ table = <<IntCell(1)>>
    /\ window = <<>>
    /\ InitLimiter
    /\ budget = ServiceCalls
    /\ engine = "none"
    /\ \E url \in BOOLEAN, module \in BOOLEAN :
          startup = StartupAt("Connecting", url, module)

\* The constructor's thread runs on until __init__ returns or raises.
startup_step ==
    \/ startup_connect
    \/ \E dbOk \in BOOLEAN : startup_test(dbOk)

NextStartup ==
    \/ startup_step
    \/ redis_flip

SpecStartup == InitStartup /\ [][NextStartup]_vars /\ WF_vars(startup_step)

\* The manager from construction on: once __init__ has returned, two threads
\* call execute and health_check on the pooled or on the fallback engine
\* (two threads never exhaust the pool, so no wait times out).
NextService ==
    \/ startup_step
    \/ \E t \in CacheCallers :
          \/ execute_hit(t, "all", <<>>, MaxTTL, 1)
          \/ execute_miss(t, "all", <<>>, MaxTTL, 1)
          \/ execute_hit_return(t)
          \/ execute_connect(t)
          \/ execute_run(t, FALSE)
          \/ execute_fetch(t)
          \/ execute_finish(t)
          \/ health_start(t)
          \/ health_connect(t)
          \/ health_run(t, FALSE)
          \/ health_run_fail(t)
          \/ health_done(t)
          \/ count_write(t)
          \/ resume(t)
    \/ redis_flip

SpecService == InitStartup /\ [][NextService]_vars

\* Health probes from every thread of the pooled manager, against a store
\* that answers fast, slowly or not at all; with more probes than the pool
\* has connections, a probe can wait for pool_timeout.
NextHealth ==
    \/ \E t \in Callers :
          \/ health_start(t)
          \/ health_connect(t)
          \/ health_connect_timeout(t)
          \/ \E slow \in BOOLEAN : health_run(t, slow)
          \/ health_run_fail(t)
          \/ health_done(t)
          \/ count_write(t)
          \/ slow_write(t)
          \/ resume(t)
    \/ Tick

SpecHealth == InitPool /\ [][NextHealth]_vars

\* The manager from construction on, with one thread that runs execute,
\* health_check and small bulk inserts once __init__ has returned.
NextSession ==
    \/ startup_step
    \/ redis_flip
    \/ execute_miss(1, "all", <<>>, 0, 1)
    \/ execute_connect(1)
    \/ execute_run(1, FALSE)
    \/ execute_fetch(1)
    \/ execute_finish(1)
    \/ health_start(1)
    \/ health_connect(1)
    \/ health_run(1, FALSE)
    \/ health_done(1)
    \/ bulk_start(1, SmallRows, 1)
    \/ bulk_connect(1)
    \/ bulk_batch(1, FALSE)
    \/ bulk_next(1)
    \/ bulk_commit(1)
    \/ count_write(1)
    \/ resume(1)

SpecSession == InitStartup /\ [][NextSession]_vars

\* One thread of the pooled manager repeats one cached query while time
\* passes: a miss, then hits until the entry expires.
InitHits == InitWith(TRUE, <<IntCell(1)>>, HitCalls)

NextHits ==
    \/ execute_hit(1, "all", <<>>, MaxTTL, 1)
    \/ execute_miss(1, "all", <<>>, MaxTTL, 1)
    \/ execute_hit_return(1)
    \/ execute_connect(1)
    \/ execute_run(1, FALSE)
    \/ count_write(1)
    \/ execute_fetch(1)
    \/ execute_finish(1)
    \/ resume(1)
    \/ Tick

SpecHits == InitHits /\ [][NextHits]_vars

\* Two threads of the pooled manager with the cache enabled: thread 1 reads
\* the table through one cached query, thread 2 appends to it with small bulk
\* inserts, which may fail; time passes and entries expire.
InitStale == InitWith(TRUE, <<IntCell(1)>>, StaleCalls)

NextStale ==
    \/ execute_hit(1, "all", <<>>, MaxTTL, 1)
    \/ execute_miss(1, "all", <<>>, MaxTTL, 1)
    \/ execute_hit_return(1)
    \/ execute_connect(1)
    \/ execute_run(1, FALSE)
    \/ execute_fetch(1)
    \/ execute_finish(1)
    \/ \E n \in 1..SmallRows, b \in 1..MaxBatch : bulk_start(2, n, b)
    \/ bulk_connect(2)
    \/ bulk_batch(2, FALSE)
    \/ bulk_batch_fail(2)
    \/ bulk_next(2)
    \/ bulk_commit(2)
    \/ bulk_commit_fail(2)
    \/ \E t \in CacheCallers :
          \/ count_write(t)
          \/ fail_write(t)
          \/ resume(t)
    \/ Tick

SpecStale == InitStale /\ [][NextStale]_vars

\* ------------------------------------------------------------ rate limit
ClientIPs == 1..NumClients

\* rate_limit_storage.get(client_ip, [])
Get(storage, client_ip) ==
    IF client_ip \in DOMAIN storage THEN storage[client_ip] ELSE <<>>

\* Mutant: an entry expires one second early.
FreshShort(at, timestamp, win) == at - timestamp < win - 1

\* Line 112: the entry is kept.
Fresh(at, timestamp, win) == at - timestamp < win

\* Lines 110-113: the client's entries without the old ones.
Clean(storage, client_ip, at, win) ==
    LET keep(timestamp) == Fresh(at, timestamp, win)
    IN  SelectSeq(Get(storage, client_ip), keep)

\* Lines 96-126, run without interruption (the function does not await):
\* the client's list is replaced by the cleaned one; at the limit the call
\* is rejected, otherwise its time is appended.
check_rate_limit(client_ip, limit, win) ==
    LET kept == Clean(rate_limit_storage, client_ip, now, win)
        within == Len(kept) < limit
        stored == IF within THEN Append(kept, now) ELSE kept
    IN  /\ rate_limit_storage' =
               [k \in DOMAIN rate_limit_storage \cup {client_ip} |->
                   IF k = client_ip THEN stored ELSE rate_limit_storage[k]]
        /\ requests' = Append(requests,
               [client_ip |-> client_ip, at |-> now, admitted |-> within])

\* Lines 182-192: every request is checked with the default limit and
\* window; a rejected one is answered 429.
security_middleware(client_ip) ==
    /\ Len(requests) < MaxRequests
    /\ check_rate_limit(client_ip, DefaultLimit, DefaultWindow)
    /\ UNCHANGED <<pc, call, conn, free, redis_client, redisUp, cache,
                   query_metrics, events, table, window, budget, engine,
                   startup, now>>

\* A second passes on the server's clock.
clock_tick ==
    /\ now < MaxClock
    /\ now' = now + 1
    /\ UNCHANGED <<pc, call, conn, free, redis_client, redisUp, cache,
                   query_metrics, events, table, window, budget, engine,
                   startup, rate_limit_storage, requests>>

NextLimiter ==
    \/ \E client_ip \in ClientIPs : security_middleware(client_ip)
    \/ clock_tick

SpecLimiter == InitPool /\ [][NextLimiter]_vars

\* ------------------------------------------------------------- properties
Capacity == PoolSize + MaxOverflow

\* The thread's handler is at a statement that runs on its connection.
UsesConnection(t) == pc[t] \in {"run", "fetch", "b_batch"}

\* The thread's handler is outside every scope that holds a connection.
OutsideScope(t) ==
    pc[t] \in {"idle", "hit_w", "combine", "fail_w", "returned", "raised"}

Ended(t) == pc[t] \in {"returned", "raised"}

\* C2: every execute and bulkInsert call releases the connection it
\* acquired on every exit path: a thread outside the scoped acquisition
\* (idle, in the except clause, after the with block, after the call)
\* holds no connection, so none stays checked out once the calls have
\* ended; and a statement runs on a connection the thread itself checked
\* out, which is not in the pool's free list.
C2_ReleasedOnEveryExit ==
    /\ \A t \in Callers : OutsideScope(t) => conn[t] = NoConn
    /\ \A t \in Callers :
          UsesConnection(t) => (conn[t] # NoConn /\ conn[t] \notin free)
    /\ (\A t \in Callers : pc[t] = "idle" \/ Ended(t)) => Held = {}

\* C2 witness: a bulk insert that had checked a connection out has raised
\* while an execute call has returned, and no call is running.
C2_Witness ==
    /\ \E t \in Callers :
          /\ pc[t] = "raised" /\ call[t].op = "bulk"
          /\ call[t].acq > 0 /\ call[t].fault = "store"
    /\ \E t \in Callers :
          pc[t] = "returned" /\ call[t].op = "execute" /\ call[t].acq > 0
    /\ \A t \in Callers : pc[t] = "idle" \/ Ended(t)

\* C3: under any interleaving the pool never hands one connection to two
\* callers: a connection is in the free list or held by exactly one thread.
C3_NoDoubleHandOut ==
    /\ \A t1, t2 \in Callers :
          (t1 # t2 /\ conn[t1] # NoConn) => conn[t1] # conn[t2]
    /\ Held \cap free = {}

\* C3 witness: as many threads as the pool allows hold connections at once
\* while a further one waits.
C3_Witness ==
    /\ Cardinality(Held) = Capacity
    /\ \E t \in Callers : Waiting(t)

\* C4 as stated: with max_size (pool_size) holders, a further acquire
\* blocks until a holder releases.
C4_Original ==
    [][(Cardinality(Held) >= PoolSize)
          => ~(\E t \in Callers : conn[t] = NoConn /\ conn'[t] # NoConn)]_vars

\* C4 amended: an acquire blocks only when pool_size + max_overflow
\* connections are held; it obtains a connection only while fewer are held
\* (so after a release), is served as soon as fewer are held, waits no
\* longer than pool_timeout, and fails (PoolExhausted) only when
\* pool_timeout has elapsed with every connection still held.
C4_BlocksAtCapacity ==
    /\ [][\A t \in Callers :
              (conn[t] = NoConn /\ conn'[t] # NoConn)
                  => Cardinality(Held) < Capacity]_vars
    /\ [][\A t \in Callers :
              (Waiting(t) /\ pc'[t] = "fail_w")
                  => (call[t].waited >= PoolTimeout
                      /\ Cardinality(Held) = Capacity)]_vars
    /\ [](\A t \in Callers :
              Waiting(t) =>
                  /\ call[t].waited <= PoolTimeout
                  /\ (Cardinality(Held) < Capacity => Available # {}))

\* C4 witness: an acquire has failed with PoolExhausted; the failure is
\* counted and raised to the caller.
C4_Witness ==
    \E t \in Callers :
        /\ pc[t] = "raised" /\ call[t].fault = "pool"
        /\ call[t].fq = 1 /\ call[t].acq = 0

\* C5 as stated: with max_size = pool_size, a call obtains its connection
\* only after an earlier one released, so at most pool_size are held.
C5_Original == Cardinality(Held) <= PoolSize

\* C5 amended: at most pool_size + max_overflow calls hold a connection at
\* once (a further call obtains its connection only after a release), no
\* call fails, and the calls never deadlock: eventually every call that
\* was started has completed, so that no thread is left inside a call.
C5_AllComplete ==
    /\ [](Cardinality(Held) <= Capacity)
    /\ [](\A t \in Callers : pc[t] # "raised")
    /\ <>[](\A t \in Callers : pc[t] = "idle")

\* C5 witness: one call waits while pool_size + max_overflow others hold
\* connections.
C5_Witness ==
    /\ \E t \in Callers : pc[t] = "connect" /\ Available = {}
    /\ Cardinality(Held) = Capacity
    /\ budget = 0

\* C8: no update of a counter is lost: each counter equals the number of
\* increments executed for it.
C8_NoLostUpdate == \A c \in Counters : query_metrics[c] = events[c]

\* C1 as stated: a call that repeats the arguments of an earlier call
\* within that call's TTL window (cache client present, no cache operation
\* of the call failed) is a cache hit and acquires no connection.
C1_Original ==
    \A t \in Callers :
        (pc[t] = "returned" /\ call[t].op = "execute"
            /\ call[t].within /\ ~call[t].cacheFault)
            => (call[t].hit /\ call[t].acq = 0)

\* C6 as stated: an execute call that raises has incremented
\* failed_queries exactly once.
C6_Original ==
    \A t \in Callers :
        (pc[t] = "raised" /\ call[t].op = "execute") => call[t].fq = 1

\* C7: a failed cache operation (get, set, invalidate) never propagates:
\* a call during which one failed, and no store or pool operation did,
\* returns; an execute call then returns the rows the store answered, from
\* one connection, and counts no failed query.
C7_CacheFailureAbsorbed ==
    \A t \in Callers :
        (Ended(t) /\ call[t].cacheFault /\ call[t].fault = "none")
            => /\ pc[t] = "returned"
               /\ call[t].fq = 0
               /\ call[t].op = "execute"
                     => /\ call[t].result = call[t].rows
                        /\ call[t].result = QueryResult(call[t].query)
                        /\ ~call[t].hit
                        /\ call[t].acq = 1

\* C7 witness: an execute call has returned the store's rows although a
\* cache operation failed during it.
C7_Witness ==
    \E t \in Callers :
        /\ pc[t] = "returned" /\ call[t].op = "execute"
        /\ call[t].cacheFault /\ ~redisUp
        /\ Len(call[t].result) > 0

Ceil(n, b) == (n + b - 1) \div b

\* The rows persisted since the thread's bulk insert began.
Persisted(t) == SubSeq(table, call[t].base + 1, Len(table))

\* C9: bulkInsert of n rows with batch size b submits batches of rows
\* (j-1)*b+1 .. min(j*b, n) in input order, ceil(n/b) of them when it
\* returns; every row is then in exactly one batch and all n rows are
\* committed.
C9_Batches ==
    \A t \in Callers :
        call[t].op = "bulk" =>
            LET c == call[t]
            IN /\ \A j \in 1..Len(c.batches) :
                     c.batches[j] =
                         [k \in 1..(Min(j * c.b, c.n) - (j - 1) * c.b)
                             |-> IntCell((j - 1) * c.b + k)]
               /\ Len(c.batches) <= Ceil(c.n, c.b)
               /\ pc[t] = "returned" =>
                     /\ Len(c.batches) = Ceil(c.n, c.b)
                     /\ Concat(c.batches) = Data(c.n)
                     /\ c.committed = Data(c.n)
                     /\ Persisted(t) = Data(c.n)

\* C9 witness: an insert whose batches needed a periodic commit and whose
\* last batch is not full has returned.
C9_Witness ==
    \E t \in Callers :
        /\ pc[t] = "returned" /\ call[t].op = "bulk"
        /\ call[t].b = 2 /\ call[t].n = 2 * CommitEvery + 1
        /\ Len(call[t].batches) = CommitEvery + 1

\* Batch failedAt (or the checkout for it) of the thread's bulk insert
\* failed.
BatchFailed(t) ==
    /\ pc[t] = "raised" /\ call[t].op = "bulk"
    /\ call[t].failedAt > 0

\* C10 as stated: after a failure at batch k exactly the rows of batches
\* 1..k-1 are persisted.
C10_Original ==
    \A t \in Callers :
        BatchFailed(t) =>
            Persisted(t) = Data(Min((call[t].failedAt - 1) * call[t].b,
                                    call[t].n))

\* C10 amended: after a failure at batch k exactly the rows of the commit
\* windows completed before it are persisted, that is batches
\* 1..10*floor((k-1)/10), and the failure is counted and raised.
C10_CommittedWindows ==
    \A t \in Callers :
        BatchFailed(t) =>
            LET w == ((call[t].failedAt - 1) \div CommitEvery)
                         * CommitEvery * call[t].b
            IN /\ Persisted(t) = Data(w)
               /\ call[t].committed = Data(w)
               /\ call[t].fq = 1

\* C10 witness: a batch after the first commit window failed; the window's
\* rows are persisted and the batches after it are not.
C10_Witness ==
    \E t \in Callers :
        /\ BatchFailed(t)
        /\ call[t].failedAt = CommitEvery + 2
        /\ Len(Persisted(t)) = CommitEvery * call[t].b

\* ----------------------------------------------------- startup properties
\* _initialize_connections has ended: __init__ returned or raised.
Terminal == startup.phase \in {"Connected", "Degraded", "Fatal"}

\* C11: startup makes at most 3 attempts and stops at the first one that
\* succeeds; it has slept 2*k seconds after the k-th failed attempt for
\* k = 1, 2 and never after the third; it is on the fallback (Degraded, or
\* Fatal) only after 3 failed attempts; once ended it makes no further
\* attempt; and it always ends in Connected, Degraded or Fatal.
C11_StartupTerminates ==
    /\ [](/\ startup.attempt \in 1..3
          /\ Len(startup.causes) =
                IF startup.phase \in {"Degraded", "Fatal"}
                THEN startup.attempt
                ELSE startup.attempt - 1
          /\ startup.delays =
                [k \in 1..Min(Len(startup.causes), 2) |-> 2 * k]
          /\ startup.phase \in {"Degraded", "Fatal"}
                => Len(startup.causes) = 3
          /\ startup.phase = "Degraded" <=> engine = "NullPool"
          /\ startup.phase = "Connected" => engine = "QueuePool")
    /\ [][Terminal => startup' = startup /\ engine' = engine]_vars
    /\ <>Terminal

\* C11 witness: all three attempts failed, with sleeps of 2 and 4 seconds,
\* and the manager is on the fallback engine.
C11_Witness ==
    /\ startup.phase = "Degraded"
    /\ startup.delays = <<2, 4>>
    /\ Len(startup.causes) = 3

\* C12 as stated: on the fallback engine the manager is uncached: it has no
\* cache client, nothing is written to the cache store and no call is
\* answered from it.
C12_Original ==
    startup.phase = "Degraded" =>
        /\ ~redis_client
        /\ cache = <<>>
        /\ \A t \in Callers : ~call[t].hit

\* C13: degraded mode is observable: on the fallback engine metrics()
\* reports the connection pool as 'unavailable' and no pool sizes, while in
\* pooled mode it reports the pool's sizes and never 'unavailable'.
C13_DegradedObservable ==
    /\ startup.phase = "Degraded" =>
          /\ DOMAIN get_metrics.connection_pool = {"status"}
          /\ get_metrics.connection_pool.status = "unavailable"
    /\ startup.phase = "Connected" =>
          /\ "status" \notin DOMAIN get_metrics.connection_pool
          /\ get_metrics.connection_pool.size = PoolSize
          /\ get_metrics.connection_pool.checked_out = Cardinality(Held)

\* C13 witness: a call has been served on the fallback engine and metrics()
\* says 'unavailable'.
C13_Witness ==
    /\ startup.phase = "Degraded"
    /\ \E t \in Callers : pc[t] = "returned" /\ call[t].op = "execute"
    /\ get_metrics.connection_pool = [status |-> "unavailable"]

\* C14 as stated: a failure of the cache store never fails a startup
\* attempt: no attempt has failed because of the cache, so with a reachable
\* backing store the manager is never degraded.
C14_Original ==
    /\ \A i \in 1..Len(startup.causes) : startup.causes[i] # "cache"
    /\ startup.phase = "Degraded" =>
          \E i \in 1..Len(startup.causes) : startup.causes[i] = "store"

\* C15 as stated: for every row count and chunk size, the chunked call
\* returns the rows of a single-shot fetch of the whole result
\* (DataFrame(result.fetchall(), columns=result.keys())), in the same order
\* and with the same columns.
C15_Original ==
    \A t \in Callers :
        pc[t] = "returned" /\ call[t].op = "execute" /\ ~call[t].hit =>
            /\ call[t].result = call[t].rows
            /\ call[t].columns = result_keys

\* C16 as stated: when execute returns an empty result with the cache
\* client present, the cache store reachable and cache_ttl > 0, the empty
\* result is stored under the call's cache key.
C16_Original ==
    [][\A t \in Callers :
          (/\ pc[t] = "combine" /\ pc'[t] = "returned"
           /\ call'[t].result = <<>>
           /\ redis_client /\ redisUp /\ call[t].ttl > 0)
          => /\ call[t].key \in DOMAIN cache'
             /\ read_json(cache'[call[t].key].payload) = <<>>]_vars

\* C17 as stated: the cache_hit_rate reported by metrics() is 0 when
\* total_queries is 0 and is cache_hits / total_queries otherwise.
C17_Original ==
    LET rate == get_metrics.cache_hit_rate
        total == query_metrics["total_queries"]
        hits == query_metrics["cache_hits"]
    IN  /\ total = 0 => rate.num = 0
        /\ total > 0 => rate.num * total = hits * rate.den

\* C18: health_check never raises, on the pooled and on the fallback engine
\* alike (a manager with no engine does not exist: __init__ raises): a probe
\* that met a failure (the store does not answer, no connection before
\* pool_timeout) returns False, counts no failed query and keeps no
\* connection, and True is returned only by a probe that met no failure.
C18_HealthNeverRaises ==
    \A t \in Callers :
        call[t].op = "health" =>
            /\ pc[t] \notin {"raised", "fail_w"}
            /\ call[t].fq = 0
            /\ call[t].fault # "none" =>
                  pc[t] = "returned" /\ ~call[t].healthy /\ conn[t] = NoConn
            /\ call[t].healthy => pc[t] = "returned" /\ call[t].fault = "none"

\* C18 witness: on the fallback engine the store did not answer the probe,
\* which returned False.
C18_Witness ==
    \E t \in Callers :
        /\ startup.phase = "Degraded"
        /\ pc[t] = "returned" /\ call[t].op = "health"
        /\ call[t].fault = "store" /\ ~call[t].healthy

\* C19 as stated: health_check is free of side effects: the listener has
\* counted nothing for an ended probe, which holds no connection, and with
\* no probe under way the counters, the cache and the checked-out count are
\* what they were before the first probe.
C19_Original ==
    /\ \A t \in Callers :
          pc[t] = "returned" /\ call[t].op = "health" =>
              call[t].listened = 0 /\ conn[t] = NoConn
    /\ (\A t \in Callers : pc[t] \in {"idle", "returned"}) =>
          /\ query_metrics = StartMetrics
          /\ cache = <<>>
          /\ Held = {}

\* C20 as stated: the four counters only grow: no step of any call makes a
\* counter smaller than it was.
C20_Original ==
    [][\A c \in Counters : query_metrics'[c] >= query_metrics[c]]_vars

\* ------------------------------------------------------ cache properties
\* The dictionary a parameter sequence denotes: its value under each name.
AsDict(params) ==
    [n \in {params[i].name : i \in 1..Len(params)} |->
        (CHOOSE i \in 1..Len(params) : params[i].name = n)]

DictOf(params) ==
    [n \in DOMAIN AsDict(params) |-> params[AsDict(params)[n]].val]

\* C21: the cache key is a function of the query and the parameter
\* dictionary, not of the insertion order, and over the input space it has
\* no collision: two calls with the same query have the same key exactly
\* when their parameter dictionaries are equal, and every key lies in the
\* query_cache: namespace.
C21_KeyDeterministicNoCollision ==
    \A t \in Callers, u \in Callers :
        (call[t].op = "execute" /\ call[u].op = "execute"
            /\ call[t].query = call[u].query) =>
            /\ call[t].key[1] = "query_cache:"
            /\ call[t].key = get_cache_key(call[t].query, call[t].params)
            /\ (call[t].key = call[u].key)
                  <=> (DictOf(call[t].params) = DictOf(call[u].params))

\* C21 witness: two calls with the same query and the same two parameters,
\* inserted in opposite orders, have the same key, which differs from the
\* key of the same query without parameters.
C21_Witness ==
    \E t \in Callers, u \in Callers :
        /\ call[t].op = "execute" /\ call[u].op = "execute"
        /\ call[t].query = call[u].query
        /\ Len(call[t].params) = 2
        /\ call[t].params # call[u].params
        /\ call[t].key = call[u].key
        /\ call[t].key # get_cache_key(call[t].query, <<>>)

\* C22 as stated: a cache hit returns the result the store returned when
\* the entry was written (the table does not change meanwhile): the same
\* rows in the same order, the same values and the same columns.
C22_Original ==
    \A t \in Callers :
        pc[t] = "returned" /\ call[t].op = "execute" /\ call[t].hit =>
            /\ call[t].result = QueryResult(call[t].query)
            /\ call[t].columns = result_keys

\* The keys of the query_cache: namespace that start with the pattern.
StartsWith(keys, pattern) ==
    {k \in keys : IsPrefix(<<"query_cache:">> \o pattern, k)}

\* C23 as stated: clear_cache(pattern) removes exactly the entries whose
\* key starts with query_cache: followed by the pattern (all entries of the
\* namespace without a pattern) and leaves every other entry unchanged.
C23_Original ==
    [][\A t \in Callers :
          (pc[t] = "idle" /\ pc'[t] = "returned" /\ call'[t].op = "clear")
          => cache' = [k \in DOMAIN cache
                             \ StartsWith(DOMAIN cache, call'[t].pattern)
                         |-> cache[k]]]_vars

\* ------------------------------------------------- bulk insert, continued
\* The rows of the commit windows (batch_size * 10 rows each) that are
\* complete once `inserted` rows are inserted.
Windows(inserted, b) == (inserted \div (b * 10)) * (b * 10)

\* C24: a bulk insert commits only when the rows inserted are a multiple of
\* batch_size * 10 and once at its end; while it runs, the rows it has
\* committed are those of the complete windows; when it fails (a batch, a
\* checkout or a commit) the open transaction is rolled back, the rows
\* persisted are exactly those of the windows completed before, and the
\* error is raised to the caller and counted once; when it returns all
\* rows are persisted.
C24_CommitWindows ==
    /\ [][\A t \in Callers :
             (call[t].op = "bulk" /\ table' # table) =>
                 /\ table' = table \o call[t].pending
                 /\ \/ call'[t].inserted % (call[t].b * 10) = 0
                    \/ pc'[t] = "returned"]_vars
    /\ [](\A t \in Callers :
             call[t].op = "bulk" =>
                 /\ pc[t] \notin {"returned", "raised"} =>
                       /\ call[t].committed =
                             Data(Windows(call[t].inserted, call[t].b))
                       /\ Persisted(t) = call[t].committed
                 /\ pc[t] = "raised" =>
                       /\ Persisted(t) =
                             Data(Windows(call[t].inserted, call[t].b))
                       /\ call[t].pending = <<>>
                       /\ conn[t] = NoConn
                       /\ call[t].fq = 1
                 /\ pc[t] = "returned" => Persisted(t) = Data(call[t].n))

\* C24 witness: the commit that closes the second window failed; the rows
\* of the first window are persisted and the error was raised.
C24_Witness ==
    \E t \in Callers :
        /\ pc[t] = "raised" /\ call[t].op = "bulk"
        /\ call[t].fault = "commit"
        /\ call[t].b = 1
        /\ Len(call[t].batches) = 20
        /\ Persisted(t) = Data(10)

\* ------------------------------------------------ execute, partial reads
\* C25: an execute that fails at a fetch, whatever it has read so far,
\* writes nothing to the cache: the failing step and the step that counts
\* the failure leave every cache entry as it was, the call raises and is
\* counted once, every entry of the cache holds a complete result, and a
\* call answered from the cache returns the complete result.
C25_PartialChunksDiscarded ==
    /\ [][\A t \in Callers :
             (\/ pc[t] = "fetch" /\ pc'[t] = "fail_w"
              \/ pc[t] = "fail_w" /\ pc'[t] = "raised") =>
                 cache' = cache]_vars
    /\ [](\A t \in Callers :
             /\ (pc[t] = "raised" /\ call[t].op = "execute") =>
                   call[t].fq = 1 /\ conn[t] = NoConn
             /\ (pc[t] = "returned" /\ call[t].op = "execute") =>
                   call[t].result = QueryResult(call[t].query))
    /\ [](\A k \in DOMAIN cache :
             read_json(cache[k].payload) = QueryResult("all"))

\* C25 witness: a call failed after it had read one chunk of two, and the
\* cache holds no entry.
C25_Witness ==
    \E t \in Callers :
        /\ pc[t] = "raised" /\ call[t].op = "execute"
        /\ call[t].fault = "store"
        /\ Len(call[t].chunks) = 1 /\ Len(call[t].rows) > 1
        /\ cache = <<>>

\* ------------------------------------------------------- slow statements
\* C26 as stated: slow_queries is incremented by exactly one for each
\* statement whose own elapsed time exceeded one second, also under
\* concurrency: its value is the number of slow statements the listener has
\* counted since construction.
C26_Original ==
    query_metrics["slow_queries"]
        = events["slow_queries"] - StartMetrics["slow_queries"]

\* ------------------------------------------------------ fallback engine
\* C27 as stated: on the fallback every operation that holds a connection
\* has it from the unpooled fallback engine, and the session factory in
\* use is bound to that engine.
C27_Original ==
    startup.phase = "Degraded" =>
        /\ startup.scoped_session = "NullPool"
        /\ \A t \in Callers : conn[t] # NoConn => call[t].via = "NullPool"

\* ------------------------------------------------------ metrics, continued
\* C28 as stated: cache_hits never exceeds total_queries, and the
\* cache_hit_rate reported by metrics() never exceeds 100 (percent).
C28_Original ==
    /\ query_metrics["cache_hits"] <= query_metrics["total_queries"]
    /\ get_metrics.cache_hit_rate.num <= 100 * get_metrics.cache_hit_rate.den

\* A step of thread t inside bulk_insert_optimized, its session's listener
\* and exception handler included.
BulkStep(t) ==
    /\ pc'[t] # pc[t]
    /\ call[t].op = "bulk" \/ call'[t].op = "bulk"

\* The rows a cached result shows are the first n rows of the table.
Snapshot(result, n) == result = read_json(to_json(SubSeq(table, 1, n)))

\* C29: no step of a bulk insert, successful or failed, creates, changes or
\* removes a cache entry, and a call answered from the cache returns the rows
\* the table had when the entry was stored, whatever was inserted since.
C29_BulkInsertLeavesCache ==
    /\ [][(\E t \in Callers : BulkStep(t)) => cache' = cache]_vars
    /\ [](\A t \in Callers :
            pc[t] = "returned" /\ call[t].op = "execute" /\ call[t].hit =>
                \E n \in 1..Len(table) : Snapshot(call[t].result, n))

\* A bulk insert has committed rows and a later call was answered from the
\* cache with the result stored before the insert.
C29_Witness ==
    \E t \in Callers :
        /\ pc[t] = "returned" /\ call[t].op = "execute" /\ call[t].hit
        /\ Len(table) > 1
        /\ Snapshot(call[t].result, 1)

\* The positions in `requests` of the client's admitted calls.
AdmittedCalls(client_ip) ==
    {i \in DOMAIN requests : /\ requests[i].client_ip = client_ip
                             /\ requests[i].admitted}

\* The times of the client's admitted calls, in call order.
AdmittedTimes(client_ip) ==
    LET mine(r) == r.client_ip = client_ip /\ r.admitted
        RECURSIVE times(_)
        times(rs) == IF rs = <<>> THEN <<>>
                     ELSE <<Head(rs).at>> \o times(Tail(rs))
    IN  times(SelectSeq(requests, mine))

\* The time of the client's latest call, admitted or not.
LastCall(client_ip) ==
    LET mine == {i \in DOMAIN requests : requests[i].client_ip = client_ip}
    IN  requests[CHOOSE i \in mine : \A j \in mine : j <= i].at

\* C30: on a clock that does not run backwards, for every client and every
\* interval [a, a + window) the admitted calls timed within it are at most
\* `limit`; the client's stored list holds exactly the times of its admitted
\* calls that were less than `window` old at its latest call, so a rejected
\* call is not recorded; and a call leaves the lists of the other clients
\* as they were.
C30_WithinLimit ==
    /\ [](\A client_ip \in ClientIPs, a \in 0..MaxClock :
            Cardinality({i \in AdmittedCalls(client_ip) :
                            /\ a <= requests[i].at
                            /\ requests[i].at < a + DefaultWindow})
                <= DefaultLimit)
    /\ [](\A client_ip \in DOMAIN rate_limit_storage :
            LET recent(timestamp) ==
                    LastCall(client_ip) - timestamp < DefaultWindow
            IN  rate_limit_storage[client_ip] =
                    SelectSeq(AdmittedTimes(client_ip), recent))
    /\ [][requests' # requests =>
            \A k \in ClientIPs \ {requests'[Len(requests')].client_ip} :
                Get(rate_limit_storage', k) = Get(rate_limit_storage, k)]_vars

\* A client at its limit was rejected, another client was admitted at that
\* same time, and the first client was admitted again once its window had
\* passed.
C30_Witness ==
    \E i, j, k \in DOMAIN requests :
        /\ i < j /\ j < k
        /\ ~requests[i].admitted
        /\ requests[j].client_ip # requests[i].client_ip
        /\ requests[j].admitted /\ requests[j].at = requests[i].at
        /\ requests[k].client_ip = requests[i].client_ip
        /\ requests[k].admitted
        /\ requests[k].at >= requests[i].at + DefaultWindow

====
